---- MODULE Spec2Model ----
(***************************************************************************)
(* The interactive list editor of todo-rust (src/tui.rs): run_tui, its key *)
(* dispatch and the run_editor bridge, as a state machine.                 *)
(*                                                                         *)
(* A String is a sequence of characters, an Option<String> is a sequence   *)
(* of zero (None) or one (Some) Strings, a Vec<Todo> is a sequence of      *)
(* records.  Every fallible call of the source (`?`) has a success and a   *)
(* failure outcome.                                                        *)
(*                                                                         *)
(* The caller of run_tui (src/main.rs) and the flat-file command path are  *)
(* modelled after the session: what they load, renumber and save.          *)
(***************************************************************************)
EXTENDS Naturals, Sequences, FiniteSets

VARIABLES
    loaded,     \* the list the caller handed to run_tui
    todos,      \* run_tui: `todos`
    selected,   \* run_tui: `selected`
    pc,         \* position in run_tui / run_editor
    handler,    \* the key arm 'e', 't', 'r' or 'a' being executed ("none" otherwise)
    files,      \* contents of the four scratch files
    status,     \* run_editor: `status`, the result of Command::status()
    raw,        \* terminal: raw mode enabled
    alt,        \* terminal: alternate screen entered
    mouse,      \* terminal: mouse capture enabled
    result,     \* what run_tui returned: "none" (still running), "ok", "err"
    returned,   \* the Vec<Todo> inside Ok(..)
    nkeys,      \* key events dispatched so far in this session
    sqlite,     \* main: `cli.sqlite`
    store,      \* the persisted list: what load_todos / load_todos_from_sqlite returns
    main_todos, \* the caller's own `todos` (main, or the Tui arm of handle_sqlite_commands)
    cpc         \* position in the caller

\* the caller's state, which run_tui cannot reach
caller == <<sqlite, store, main_todos, cpc>>

vars == <<loaded, todos, selected, pc, handler, files, status, raw, alt, mouse,
          result, returned, nkeys, sqlite, store, main_todos, cpc>>

----------------------------------------------------------------------------
(* Bounds of the model *)

MaxTodos == 3
MaxKeys == 2

----------------------------------------------------------------------------
(* Strings *)

\* char::is_whitespace, on the characters the model uses
IsWhitespace(c) == c \in {" ", "\n"}

\* what an editor can leave in a scratch file: nothing, only whitespace, a line
\* with its newline, padded text, text with inner whitespace
Contents ==
    { <<>>,
      <<" ", " ">>,
      <<"a", "\n">>,
      <<" ", "a", " ">>,
      <<"a", " ", "b">> }

RECURSIVE TrimStart(_)
TrimStart(s) ==
    IF s = <<>> THEN s
    ELSE IF IsWhitespace(Head(s)) THEN TrimStart(Tail(s)) ELSE s

RECURSIVE TrimEnd(_)
TrimEnd(s) ==
    IF s = <<>> THEN s
    ELSE IF IsWhitespace(s[Len(s)]) THEN TrimEnd(SubSeq(s, 1, Len(s) - 1)) ELSE s

Trim(s) == TrimEnd(TrimStart(s))

None == <<>>
Some(s) == <<s>>
UnwrapOr(opt, default) == IF opt = None THEN default ELSE opt[1]

----------------------------------------------------------------------------
(* Todo items and the initial lists *)

Todo(id, text, done, due_date, reminder) ==
    [id |-> id, text |-> text, done |-> done, due_date |-> due_date, reminder |-> reminder]

SaturatingSub(a, b) == IF a > b THEN a - b ELSE 0

\* texts as the stores hold them: `todo add` stores its argument untrimmed, so a text
\* can carry a leading blank (here the items with an even id do)
InitText(id) == IF id % 2 = 0 THEN <<" ", "t">> ELSE <<"t">>

\* an item as a store holds it: ids ascend but need not be dense
InitTodo(id) == Todo(id, InitText(id), FALSE, None, Some(<<"r">>))

InitIds == 1 .. MaxTodos

Min(S) == CHOOSE x \in S : \A y \in S : x <= y

\* the items with the ids of S, in ascending order of id
RECURSIVE Ascending(_)
Ascending(S) ==
    IF S = {} THEN <<>> ELSE <<InitTodo(Min(S))>> \o Ascending(S \ {Min(S)})

InitLists == {Ascending(S) : S \in SUBSET InitIds}

----------------------------------------------------------------------------
(* Scratch files *)

EditPath == "/tmp/todo_edit.txt"
DuePath == "/tmp/todo_due.txt"
ReminderPath == "/tmp/todo_reminder.txt"
NewPath == "/tmp/todo_new.txt"

Paths == {EditPath, DuePath, ReminderPath, NewPath}

TmpPath(h) ==
    CASE h = "e" -> EditPath
      [] h = "t" -> DuePath
      [] h = "r" -> ReminderPath
      [] h = "a" -> NewPath

\* variant: the file is left as it was
FsWriteSkipped(fs, path, content) == fs

\* fs::write(path, content)
FsWrite(fs, path, content) == [fs EXCEPT ![path] = content]

----------------------------------------------------------------------------
(* The pure parts of the key arms of run_tui *)

\* variant: the bound is compared with <=
DownGuardInclusive(sel, n) == sel <= SaturatingSub(n, 1)

\* KeyCode::Down: `selected < todos.len().saturating_sub(1)`
DownGuard(sel, n) == sel < SaturatingSub(n, 1)

\* KeyCode::Up: `selected > 0`
UpGuard(sel) == sel > 0

\* `todos.get_mut(selected)` is Some (selected is zero-based)
HasItem(ts, sel) == sel < Len(ts)

\* the item `selected` points at, as a one-based sequence index
At(sel) == sel + 1

\* variant: the last item is removed instead of the selected one
RemoveLast(ts, sel) == SubSeq(ts, 1, Len(ts) - 1)

\* Vec::remove(selected)
Remove(ts, sel) == SubSeq(ts, 1, sel) \o SubSeq(ts, sel + 2, Len(ts))

\* variant: the selection is not moved back after a removal
SelectedAfterDeleteKept(sel) == sel

\* KeyCode::Char('d'): `if selected > 0 { selected -= 1 }`
SelectedAfterDelete(sel) == IF sel > 0 THEN sel - 1 ELSE sel

\* variant: the flag is set instead of flipped
ToggleSet(t) == [t EXCEPT !.done = TRUE]

\* KeyCode::Char(' '): `todo.done = !todo.done`
Toggle(t) == [t EXCEPT !.done = ~t.done]

\* variant: the due date is cleared along with the reminder
ClearReminderAndDue(t) == [t EXCEPT !.reminder = None, !.due_date = None]

\* KeyCode::Char('c'): `todo.reminder = None`
ClearReminder(t) == [t EXCEPT !.reminder = None]

\* variant: the trimmed content replaces the text even when it is empty
ApplyEditAlways(t, updated) == [t EXCEPT !.text = Trim(updated)]

\* KeyCode::Char('e'): text replaced unless the trimmed content is empty
ApplyEdit(t, updated) ==
    IF Trim(updated) # <<>> THEN [t EXCEPT !.text = Trim(updated)] ELSE t

\* variant: the trimmed content is stored even when it is empty
ApplyDueSomeEmpty(t, updated) == [t EXCEPT !.due_date = Some(Trim(updated))]

\* KeyCode::Char('t'): due date set to the trimmed content, or cleared
ApplyDue(t, updated) ==
    IF Trim(updated) # <<>> THEN [t EXCEPT !.due_date = Some(Trim(updated))]
    ELSE [t EXCEPT !.due_date = None]

\* KeyCode::Char('r'): reminder set to the trimmed content, or cleared
ApplyReminder(t, updated) ==
    IF Trim(updated) # <<>> THEN [t EXCEPT !.reminder = Some(Trim(updated))]
    ELSE [t EXCEPT !.reminder = None]

\* variant: the new id is the length before the push
NewTodoIdLen(ts, new_text) == Todo(Len(ts), Trim(new_text), FALSE, None, None)

\* variant: the text is stored as read, not trimmed
NewTodoUntrimmed(ts, new_text) == Todo(Len(ts) + 1, new_text, FALSE, None, None)

\* KeyCode::Char('a'): the pushed Todo, `id: todos.len() + 1`
NewTodo(ts, new_text) == Todo(Len(ts) + 1, Trim(new_text), FALSE, None, None)

\* KeyCode::Char('a'): push unless the trimmed content is empty
ApplyAdd(ts, new_text) ==
    IF Trim(new_text) # <<>> THEN Append(ts, NewTodo(ts, new_text)) ELSE ts

\* KeyCode::Char('a'): `selected = todos.len().saturating_sub(1)` after a push
SelectedAfterAdd(ts, sel, new_text) ==
    IF Trim(new_text) # <<>> THEN SaturatingSub(Len(ApplyAdd(ts, new_text)), 1) ELSE sel

\* variant: every arm starts from an empty scratch file
SeedEmpty(h, ts, sel) == <<>>

\* what each arm writes to its scratch file before run_editor
Seed(h, ts, sel) ==
    CASE h = "e" -> ts[At(sel)].text
      [] h = "t" -> UnwrapOr(ts[At(sel)].due_date, <<>>)
      [] h = "r" -> UnwrapOr(ts[At(sel)].reminder, <<>>)
      [] h = "a" -> <<>>

\* what each arm does with the content it reads back
Apply(h, ts, sel, content) ==
    CASE h = "e" -> [ts EXCEPT ![At(sel)] = ApplyEdit(@, content)]
      [] h = "t" -> [ts EXCEPT ![At(sel)] = ApplyDue(@, content)]
      [] h = "r" -> [ts EXCEPT ![At(sel)] = ApplyReminder(@, content)]
      [] h = "a" -> ApplyAdd(ts, content)

SelectedAfter(h, ts, sel, content) ==
    IF h = "a" THEN SelectedAfterAdd(ts, sel, content) ELSE sel

----------------------------------------------------------------------------
(* Initial state: run_tui has been called and has not done anything yet.  The caller
   waits in the flat-file path; nothing in the session reads or writes its state. *)

Init ==
    /\ loaded \in InitLists
    /\ todos = loaded
    /\ selected = 0
    /\ pc = "enable_raw"
    /\ handler = "none"
    /\ files = [p \in Paths |-> <<"s">>]
    /\ status = "none"
    /\ raw = FALSE
    /\ alt = FALSE
    /\ mouse = FALSE
    /\ result = "none"
    /\ returned = <<>>
    /\ nkeys = 0
    /\ sqlite = FALSE
    /\ store = loaded
    /\ main_todos = loaded
    /\ cpc = "run_tui"

\* `?` on an Err: run_tui returns the error from wherever it is
ReturnErr ==
    /\ pc' = "done"
    /\ result' = "err"
    /\ UNCHANGED <<caller, loaded, todos, selected, handler, files, status, raw, alt, mouse,
                   returned, nkeys>>

----------------------------------------------------------------------------
(* Terminal setup, lines 37-43 *)

SetupEnableRaw ==
    /\ pc = "enable_raw"
    /\ \/ /\ raw' = TRUE
          /\ pc' = "enter_alt"
          /\ UNCHANGED <<caller, loaded, todos, selected, handler, files, status, alt, mouse,
                         result, returned, nkeys>>
       \/ ReturnErr

SetupEnterAlt ==
    /\ pc = "enter_alt"
    /\ \/ /\ alt' = TRUE
          /\ pc' = "enable_mouse"
          /\ UNCHANGED <<caller, loaded, todos, selected, handler, files, status, raw, mouse,
                         result, returned, nkeys>>
       \/ ReturnErr

SetupEnableMouse ==
    /\ pc = "enable_mouse"
    /\ \/ /\ mouse' = TRUE
          /\ pc' = "new_terminal"
          /\ UNCHANGED <<caller, loaded, todos, selected, handler, files, status, raw, alt,
                         result, returned, nkeys>>
       \/ ReturnErr

SetupTerminal ==
    /\ pc = "new_terminal"
    /\ \/ /\ pc' = "draw"
          /\ selected' = 0
          /\ UNCHANGED <<caller, loaded, todos, handler, files, status, raw, alt, mouse,
                         result, returned, nkeys>>
       \/ ReturnErr

----------------------------------------------------------------------------
(* The loop: render, then poll and dispatch, lines 45-180 *)

Draw ==
    /\ pc = "draw"
    /\ \/ /\ pc' = "poll"
          /\ UNCHANGED <<caller, loaded, todos, selected, handler, files, status, raw, alt, mouse,
                         result, returned, nkeys>>
       \/ ReturnErr

\* event::poll / event::read fail
PollErr ==
    /\ pc = "poll"
    /\ ReturnErr

\* no event within 100 ms, or an event that is not a key
PollNothing ==
    /\ pc = "poll"
    /\ pc' = "draw"
    /\ UNCHANGED <<caller, loaded, todos, selected, handler, files, status, raw, alt, mouse,
                   result, returned, nkeys>>

\* a key arm that does not call run_editor: the whole arm, then back to the loop top
Viewed(ts, sel) ==
    /\ pc = "poll"
    /\ nkeys < MaxKeys
    /\ nkeys' = nkeys + 1
    /\ todos' = ts
    /\ selected' = sel
    /\ pc' = "draw"
    /\ UNCHANGED <<caller, loaded, handler, files, status, raw, alt, mouse, result, returned>>

KeyQuit ==
    /\ pc = "poll"
    /\ pc' = "td_disable_raw"
    /\ UNCHANGED <<caller, loaded, todos, selected, handler, files, status, raw, alt, mouse,
                   result, returned, nkeys>>

KeyDown == Viewed(todos, IF DownGuard(selected, Len(todos)) THEN selected + 1 ELSE selected)

KeyUp == Viewed(todos, IF UpGuard(selected) THEN selected - 1 ELSE selected)

KeyToggle ==
    Viewed(IF HasItem(todos, selected)
             THEN [todos EXCEPT ![At(selected)] = Toggle(@)] ELSE todos,
           selected)

KeyDelete ==
    IF selected < Len(todos)
      THEN Viewed(Remove(todos, selected), SelectedAfterDelete(selected))
      ELSE Viewed(todos, selected)

KeyClearReminder ==
    Viewed(IF HasItem(todos, selected)
             THEN [todos EXCEPT ![At(selected)] = ClearReminder(@)] ELSE todos,
           selected)

KeyOther == Viewed(todos, selected)

\* the arms 'e', 't', 'r', 'a' up to the call of run_editor: the guard, then fs::write(..)?
EditorKey(h) ==
    /\ pc = "poll"
    /\ nkeys < MaxKeys
    /\ nkeys' = nkeys + 1
    /\ IF h # "a" /\ ~HasItem(todos, selected)
         THEN /\ pc' = "draw"
              /\ UNCHANGED <<caller, loaded, todos, selected, handler, files, status, raw, alt,
                             mouse, result, returned>>
         ELSE \/ /\ files' = FsWrite(files, TmpPath(h), Seed(h, todos, selected))
                 /\ handler' = h
                 /\ pc' = "ed_disable_raw"
                 /\ UNCHANGED <<caller, loaded, todos, selected, status, raw, alt, mouse, result,
                                returned>>
              \/ /\ handler' = h
                 /\ pc' = "done"
                 /\ result' = "err"
                 /\ UNCHANGED <<caller, loaded, todos, selected, files, status, raw, alt, mouse,
                                returned>>

KeyEdit == EditorKey("e")

KeyDue == EditorKey("t")

KeyReminder == EditorKey("r")

KeyAdd ==
    /\ Len(todos) < MaxTodos
    /\ EditorKey("a")

----------------------------------------------------------------------------
(* run_editor, lines 190-217 *)

\* run_editor returns Err from a `?`: `.is_ok()` is false, the arm ends, the loop continues
EditorReturnsErr ==
    /\ pc' = "draw"
    /\ handler' = "none"
    /\ status' = "none"
    /\ UNCHANGED <<caller, loaded, todos, selected, files, raw, alt, mouse, result, returned, nkeys>>

\* one terminal call of run_editor that succeeds
EditorStep(next) ==
    /\ pc' = next
    /\ UNCHANGED <<caller, loaded, todos, selected, handler, files, status, result, returned, nkeys>>

EditorDisableRaw ==
    /\ pc = "ed_disable_raw"
    /\ \/ EditorStep("ed_leave_alt") /\ raw' = FALSE /\ UNCHANGED <<alt, mouse>>
       \/ EditorReturnsErr

EditorLeaveAlt ==
    /\ pc = "ed_leave_alt"
    /\ \/ EditorStep("ed_disable_mouse") /\ alt' = FALSE /\ UNCHANGED <<raw, mouse>>
       \/ EditorReturnsErr

EditorDisableMouse ==
    /\ pc = "ed_disable_mouse"
    /\ \/ EditorStep("ed_spawn") /\ mouse' = FALSE /\ UNCHANGED <<raw, alt>>
       \/ EditorReturnsErr

\* Command::new(editor).arg(temp_file).status(): the launch fails, or the child starts
EditorSpawn ==
    /\ pc = "ed_spawn"
    /\ \/ /\ status' = "err"
          /\ pc' = "ed_enter_alt"
       \/ /\ status' = "running"
          /\ pc' = "ed_wait"
    /\ UNCHANGED <<caller, loaded, todos, selected, handler, files, raw, alt, mouse, result,
                   returned, nkeys>>

\* the child exits, with any exit code, having rewritten the scratch file or left it
\* as it was
EditorExits ==
    /\ pc = "ed_wait"
    /\ \E content \in Contents \cup {files[TmpPath(handler)]},
          code \in {"ok_zero", "ok_nonzero"} :
          /\ files' = FsWrite(files, TmpPath(handler), content)
          /\ status' = code
    /\ pc' = "ed_enter_alt"
    /\ UNCHANGED <<caller, loaded, todos, selected, handler, raw, alt, mouse, result, returned,
                   nkeys>>

EditorEnterAlt ==
    /\ pc = "ed_enter_alt"
    /\ \/ EditorStep("ed_enable_mouse") /\ alt' = TRUE /\ UNCHANGED <<raw, mouse>>
       \/ EditorReturnsErr

\* EnableMouseCapture, Clear(All), MoveTo(0, 0): the rest of the execute! of lines 201-207
EditorEnableMouse ==
    /\ pc = "ed_enable_mouse"
    /\ \/ EditorStep("ed_enable_raw") /\ mouse' = TRUE /\ UNCHANGED <<raw, alt>>
       \/ EditorReturnsErr

EditorEnableRaw ==
    /\ pc = "ed_enable_raw"
    /\ \/ EditorStep("ed_redraw") /\ raw' = TRUE /\ UNCHANGED <<alt, mouse>>
       \/ EditorReturnsErr

\* variant: the launch error is dropped
IsOkAlways(st) == TRUE

\* `.is_ok()` of run_editor's result
IsOk(st) == st # "err"

\* terminal.draw(|_| {})?, then `match status`
EditorRedraw ==
    /\ pc = "ed_redraw"
    /\ \/ /\ IsOk(status)
          /\ pc' = "read_back"
          /\ UNCHANGED <<caller, loaded, todos, selected, handler, files, status, raw, alt, mouse,
                         result, returned, nkeys>>
       \/ /\ ~IsOk(status)
          /\ EditorReturnsErr
       \/ EditorReturnsErr

\* back in the key arm: fs::read_to_string(tmp_path)?, then the arm's update
ReadBack ==
    /\ pc = "read_back"
    /\ \/ /\ todos' = Apply(handler, todos, selected, files[TmpPath(handler)])
          /\ selected' = SelectedAfter(handler, todos, selected, files[TmpPath(handler)])
          /\ pc' = "draw"
          /\ handler' = "none"
          /\ status' = "none"
          /\ UNCHANGED <<caller, loaded, files, raw, alt, mouse, result, returned, nkeys>>
       \/ ReturnErr

----------------------------------------------------------------------------
(* After the loop, lines 182-186 *)

TeardownDisableRaw ==
    /\ pc = "td_disable_raw"
    /\ \/ /\ raw' = FALSE
          /\ pc' = "td_leave_alt"
          /\ UNCHANGED <<caller, loaded, todos, selected, handler, files, status, alt, mouse,
                         result, returned, nkeys>>
       \/ ReturnErr

TeardownLeaveAlt ==
    /\ pc = "td_leave_alt"
    /\ \/ /\ alt' = FALSE
          /\ pc' = "td_disable_mouse"
          /\ UNCHANGED <<caller, loaded, todos, selected, handler, files, status, raw, mouse,
                         result, returned, nkeys>>
       \/ ReturnErr

TeardownDisableMouse ==
    /\ pc = "td_disable_mouse"
    /\ \/ /\ mouse' = FALSE
          /\ pc' = "td_show_cursor"
          /\ UNCHANGED <<caller, loaded, todos, selected, handler, files, status, raw, alt,
                         result, returned, nkeys>>
       \/ ReturnErr

\* variant: the list is renumbered by position before it is returned
OkTodosRenumbered(ts) == [i \in 1 .. Len(ts) |-> [ts[i] EXCEPT !.id = i]]

\* `Ok(todos)`: the list is moved out as it is
OkTodos(ts) == ts

\* terminal.show_cursor()?, then Ok(todos)
ReturnOk ==
    /\ pc = "td_show_cursor"
    /\ \/ /\ pc' = "done"
          /\ result' = "ok"
          /\ returned' = OkTodos(todos)
          /\ UNCHANGED <<caller, loaded, todos, selected, handler, files, status, raw, alt, mouse,
                         nkeys>>
       \/ ReturnErr

----------------------------------------------------------------------------

Next ==
    \/ SetupEnableRaw \/ SetupEnterAlt \/ SetupEnableMouse \/ SetupTerminal
    \/ Draw \/ PollErr \/ PollNothing
    \/ KeyQuit \/ KeyDown \/ KeyUp \/ KeyToggle \/ KeyDelete \/ KeyClearReminder
    \/ KeyOther \/ KeyEdit \/ KeyDue \/ KeyReminder \/ KeyAdd
    \/ EditorDisableRaw \/ EditorLeaveAlt \/ EditorDisableMouse \/ EditorSpawn
    \/ EditorExits \/ EditorEnterAlt \/ EditorEnableMouse \/ EditorEnableRaw
    \/ EditorRedraw \/ ReadBack
    \/ TeardownDisableRaw \/ TeardownLeaveAlt \/ TeardownDisableMouse \/ ReturnOk

Spec == Init /\ [][Next]_vars

----------------------------------------------------------------------------
(* The caller of run_tui: main.rs, the Tui command on both stores *)

\* what run_tui owns; the caller leaves it alone
session == <<loaded, todos, selected, pc, handler, files, status, raw, alt, mouse,
             result, returned, nkeys>>

\* `todos_for_tui`: each Todo copied field by field into a TuiTodo, id included
ToTui(ts) ==
    [i \in 1 .. Len(ts) |->
        Todo(ts[i].id, ts[i].text, ts[i].done, ts[i].due_date, ts[i].reminder)]

\* variant: the ids of the returned items are kept
FromTuiKeepIds(ts) ==
    [i \in 1 .. Len(ts) |->
        Todo(ts[i].id, ts[i].text, ts[i].done, ts[i].due_date, ts[i].reminder)]

\* the Ok arm: `enumerate()` and `id: i + 1` (i zero-based), the other fields moved
FromTui(ts) ==
    [i \in 1 .. Len(ts) |->
        Todo(i, ts[i].text, ts[i].done, ts[i].due_date, ts[i].reminder)]

\* the command starts: the store is loaded, copied for the TUI, and run_tui is called
InitCaller ==
    /\ sqlite \in BOOLEAN
    /\ store \in InitLists
    /\ main_todos = store
    /\ loaded = ToTui(main_todos)
    /\ todos = loaded
    /\ selected = 0
    /\ pc = "enable_raw"
    /\ handler = "none"
    /\ files = [p \in Paths |-> <<"s">>]
    /\ status = "none"
    /\ raw = FALSE
    /\ alt = FALSE
    /\ mouse = FALSE
    /\ result = "none"
    /\ returned = <<>>
    /\ nkeys = 0
    /\ cpc = "run_tui"

\* save_todos(ts).unwrap(): File::create truncates the file, write_all fills it; an Err
\* from either panics.  A file cut short does not parse, and load_todos then returns
\* an empty list.
SaveTodos(ts, next) ==
    \/ /\ store' = ts
       /\ cpc' = next
    \/ /\ store' = store
       /\ cpc' = "panic"
    \/ /\ store' = <<>>
       /\ cpc' = "panic"

\* save_todos_to_sqlite(conn, ts): DELETE and the INSERTs in one transaction; a panic
\* before the commit drops the transaction, which rolls it back
SaveTodosToSqlite(ts, next) ==
    \/ /\ store' = ts
       /\ cpc' = next
    \/ /\ store' = store
       /\ cpc' = "panic"

\* handle_tui_command_json, the Ok arm: clear, push renumbered, save
JsonTuiOk ==
    /\ ~sqlite
    /\ cpc = "run_tui"
    /\ pc = "done"
    /\ result = "ok"
    /\ main_todos' = FromTui(returned)
    /\ SaveTodos(main_todos', "main_save")
    /\ UNCHANGED <<sqlite, session>>

\* handle_tui_command_json, the Err arm: the error is printed
JsonTuiErr ==
    /\ ~sqlite
    /\ cpc = "run_tui"
    /\ pc = "done"
    /\ result = "err"
    /\ cpc' = "main_save"
    /\ UNCHANGED <<sqlite, store, main_todos, session>>

\* main: save_todos(&todos).unwrap() after handle_json_commands, whatever the command did
MainSave ==
    /\ cpc = "main_save"
    /\ SaveTodos(main_todos, "exit")
    /\ UNCHANGED <<sqlite, main_todos, session>>

\* handle_sqlite_commands, Tui, the Ok arm: renumber, save
SqliteTuiOk ==
    /\ sqlite
    /\ cpc = "run_tui"
    /\ pc = "done"
    /\ result = "ok"
    /\ main_todos' = FromTui(returned)
    /\ SaveTodosToSqlite(main_todos', "exit")
    /\ UNCHANGED <<sqlite, session>>

\* handle_sqlite_commands, Tui, the Err arm: the error is printed
SqliteTuiErr ==
    /\ sqlite
    /\ cpc = "run_tui"
    /\ pc = "done"
    /\ result = "err"
    /\ cpc' = "exit"
    /\ UNCHANGED <<sqlite, store, main_todos, session>>

\* the whole command: a session and then the caller.  The due-date and reminder arms,
\* which differ from the edit arm only in the field and the scratch file, are left out
\* of these sessions.
NextCaller ==
    \/ SetupEnableRaw \/ SetupEnterAlt \/ SetupEnableMouse \/ SetupTerminal
    \/ Draw \/ PollErr \/ PollNothing
    \/ KeyQuit \/ KeyDown \/ KeyUp \/ KeyToggle \/ KeyDelete \/ KeyClearReminder
    \/ KeyOther \/ KeyEdit \/ KeyAdd
    \/ EditorDisableRaw \/ EditorLeaveAlt \/ EditorDisableMouse \/ EditorSpawn
    \/ EditorExits \/ EditorEnterAlt \/ EditorEnableMouse \/ EditorEnableRaw
    \/ EditorRedraw \/ ReadBack
    \/ TeardownDisableRaw \/ TeardownLeaveAlt \/ TeardownDisableMouse \/ ReturnOk
    \/ JsonTuiOk \/ JsonTuiErr \/ MainSave \/ SqliteTuiOk \/ SqliteTuiErr

SpecCaller == InitCaller /\ [][NextCaller]_vars

----------------------------------------------------------------------------
(* The flat-file command path: main and handle_json_commands, one command per run of
   the program.  The Tui command is the specification above; the Edit command, which
   changes a text and no id, is not part of these runs. *)

\* ids a command line can name: those of a full list and one more
CliIds == 1 .. MaxTodos + 1

\* `text: Vec<String>` of the Add command: two words
AddArgs == {<< <<"t">>, <<"u">> >>}

\* date and time arguments: a number without and with its leading zero, and a word
DateArgs == {<<"1">>, <<"x">>}
TimeArgs == {<<"0", "2">>, <<"x">>}

\* text.join(" ")
RECURSIVE Join(_)
Join(words) ==
    IF words = <<>> THEN <<>>
    ELSE IF Len(words) = 1 THEN words[1]
    ELSE words[1] \o <<" ">> \o Join(Tail(words))

\* the numeric fields chrono parses: one or two digits; 0 stands for a parse error
ParseNum(s) ==
    CASE s \in {<<"1">>, <<"0", "1">>} -> 1
      [] s \in {<<"2">>, <<"0", "2">>} -> 2
      [] OTHER -> 0

\* validate_date(..).is_ok()
ValidDate(date) == ParseNum(date) # 0

\* validate_datetime(..).is_ok(): the date, then the time
ValidDatetime(date, time) == ParseNum(date) # 0 /\ ParseNum(time) # 0

\* a numeric field as "%Y-%m-%d %H:%M" prints it: zero-padded
FormatNum(n) == IF n = 1 THEN <<"0", "1">> ELSE <<"0", "2">>

\* format_datetime(&datetime): the parsed date and time, printed again
FormatDatetime(date, time) ==
    FormatNum(ParseNum(date)) \o <<" ">> \o FormatNum(ParseNum(time))

\* `todos.iter_mut().find(|t| t.id == id)`: the position of the first match, 0 if none
Find(ts, id) ==
    IF \E i \in 1 .. Len(ts) : ts[i].id = id
      THEN Min({i \in 1 .. Len(ts) : ts[i].id = id})
      ELSE 0

\* `todos.retain(|todo| todo.id != id)`
Retain(ts, id) == SelectSeq(ts, LAMBDA t : t.id # id)

\* variant: the ids are left as they are after a delete
RenumberSkipped(ts) == ts

\* `for (i, todo) in todos.iter_mut().enumerate() { todo.id = i + 1 }` (i zero-based)
Renumber(ts) == [i \in 1 .. Len(ts) |-> [ts[i] EXCEPT !.id = i]]

\* a store as n Add commands leave it: ids 1 .. n in order
RECURSIVE Added(_)
Added(n) ==
    IF n = 0 THEN <<>>
    ELSE Append(Added(n - 1), Todo(n, Join(<< <<"t">>, <<"u">> >>), FALSE, None, None))

\* the program was started with a command of this path and has loaded the store
InitCli ==
    /\ sqlite = FALSE
    /\ store \in {Added(n) : n \in 0 .. MaxTodos}
    /\ main_todos = store
    /\ cpc = "handle"
    /\ loaded = <<>>
    /\ todos = <<>>
    /\ selected = 0
    /\ pc = "not_called"
    /\ handler = "none"
    /\ files = [p \in Paths |-> <<"s">>]
    /\ status = "none"
    /\ raw = FALSE
    /\ alt = FALSE
    /\ mouse = FALSE
    /\ result = "none"
    /\ returned = <<>>
    /\ nkeys = 0

\* the program is started again: main, `let mut todos = load_todos()`
CliLoad ==
    /\ ~sqlite
    /\ cpc \in {"exit", "panic"}
    /\ main_todos' = store
    /\ cpc' = "handle"
    /\ UNCHANGED <<sqlite, store, session>>

\* one arm of handle_json_commands that leaves the caller's list as ts
Handled(ts) ==
    /\ ~sqlite
    /\ cpc = "handle"
    /\ main_todos' = ts
    /\ cpc' = "main_save"
    /\ UNCHANGED <<sqlite, store, session>>

\* Commands::Add
CliAdd(text) ==
    /\ Len(main_todos) < MaxTodos
    /\ Handled(Append(main_todos, Todo(Len(main_todos) + 1, Join(text), FALSE, None, None)))

\* Commands::Done
CliDone(id) ==
    Handled(IF Find(main_todos, id) # 0
              THEN [main_todos EXCEPT ![Find(main_todos, id)].done = TRUE]
              ELSE main_todos)

\* Commands::Delete
CliDelete(id) == Handled(Renumber(Retain(main_todos, id)))

\* Commands::List
CliList == Handled(main_todos)

\* Commands::Due
CliDue(id, date) ==
    Handled(IF ValidDate(date) /\ Find(main_todos, id) # 0
              THEN [main_todos EXCEPT ![Find(main_todos, id)].due_date = Some(date)]
              ELSE main_todos)

\* Commands::Remind
CliRemind(id, date, time) ==
    Handled(IF ValidDatetime(date, time) /\ Find(main_todos, id) # 0
              THEN [main_todos EXCEPT ![Find(main_todos, id)].reminder =
                                          Some(FormatDatetime(date, time))]
              ELSE main_todos)

\* Commands::ClearReminder
CliClearReminder(id) ==
    Handled(IF Find(main_todos, id) # 0
              THEN [main_todos EXCEPT ![Find(main_todos, id)].reminder = None]
              ELSE main_todos)

NextCli ==
    \/ CliLoad
    \/ \E text \in AddArgs : CliAdd(text)
    \/ \E id \in CliIds : CliDone(id)
    \/ \E id \in CliIds : CliDelete(id)
    \/ CliList
    \/ \E id \in CliIds, date \in DateArgs : CliDue(id, date)
    \/ \E id \in CliIds, date \in DateArgs, time \in TimeArgs : CliRemind(id, date, time)
    \/ \E id \in CliIds : CliClearReminder(id)
    \/ MainSave

SpecCli == InitCli /\ [][NextCli]_vars

----------------------------------------------------------------------------
(* Properties *)

\* id == position + 1 for every item
Dense(ts) == \A i \in 1 .. Len(ts) : ts[i].id = i

\* pairwise distinct ids
Distinct(ts) == \A i, j \in 1 .. Len(ts) : i # j => ts[i].id # ts[j].id

\* t is c without its leading and trailing whitespace
IsTrimOf(t, c) ==
    /\ t # <<>> => ~IsWhitespace(t[1]) /\ ~IsWhitespace(t[Len(t)])
    /\ \E i, j \in 0 .. Len(c) :
          /\ i + Len(t) + j = Len(c)
          /\ SubSeq(c, i + 1, i + Len(t)) = t
          /\ \A k \in 1 .. i : IsWhitespace(c[k])
          /\ \A k \in (Len(c) - j + 1) .. Len(c) : IsWhitespace(c[k])

\* C1: whenever the item list is non-empty, the selection is an index into it:
\* 0 <= selected < len(items), in every state of a session, whatever keys were pressed.
C1_SelectionInRange ==
    Len(todos) > 0 => (0 <= selected /\ selected < Len(todos))

\* C1 witness: a delete at the last index of a longer list has moved the selection
\* back onto the new last item.
C1_Witness ==
    /\ pc = "draw"
    /\ nkeys = 2
    /\ Len(loaded) >= 2
    /\ Len(todos) = Len(loaded) - 1
    /\ selected = Len(todos) - 1
    /\ todos = SubSeq(loaded, 1, Len(loaded) - 1)

\* C2: when run_tui has returned, with Ok or with Err, raw mode is disabled and the
\* alternate screen has been left.
C2_TerminalRestoredOnReturn ==
    result # "none" => (~raw /\ ~alt)

\* C3: a failure inside the editor work of an edit, add, due-date or reminder
\* operation never makes run_tui return an error.
C3_BridgeFailureKeepsSession ==
    handler # "none" => result # "err"

\* C4 as stated: starting from id == position + 1, the in-memory list has
\* id == position + 1 for every item in every state of the session.
C4_IdsAlwaysDense ==
    Dense(loaded) => Dense(todos)

\* every id is at least its position + 1
IdsAtLeastPosition(ts) == \A i \in 1 .. Len(ts) : ts[i].id >= i

\* C4 amended: starting from id == position + 1, every item's id stays >= its
\* position + 1, and id == position + 1 for all items is kept by every step that does
\* not shorten the list (add assigns len + 1); only a delete, which removes without
\* renumbering, can break it.
C4_IdsDenseUntilDelete ==
    /\ [](Dense(loaded) => IdsAtLeastPosition(todos))
    /\ [][Dense(todos) /\ Len(todos') >= Len(todos) => Dense(todos')]_vars

\* C4 witness: an add has appended an item with id = len + 1 to a list that had
\* id == position + 1.
C4_Witness ==
    /\ pc = "draw"
    /\ Dense(loaded)
    /\ Len(loaded) > 0
    /\ Len(todos) = Len(loaded) + 1
    /\ todos[Len(todos)].id = Len(todos)

\* C5: starting from pairwise distinct ids (here the ids 1..n), the ids of the in-memory
\* list are pairwise distinct in every state; an add after a delete never creates an id
\* that an existing item has.
C5_IdsDistinct ==
    Distinct(loaded) /\ Dense(loaded) => Distinct(todos)

\* C6: in an edit, due-date or reminder operation, once the editor failed to launch or
\* exited non-zero, or when a scratch-file operation fails, no step changes the item
\* list and run_tui does not return an error.
C6_ExternalErrorLeavesField ==
    [][(/\ handler' \in {"e", "t", "r"}
        /\ \/ status \in {"err", "ok_nonzero"}
           \/ result' = "err" /\ pc \in {"poll", "read_back"})
       => (todos' = todos /\ result' = "none")]_vars

\* C7 as stated: the list run_tui returns has id == position + 1 for every item, after
\* any deletions and additions of the session (here from a list that had it).
C7_ReturnedRenumbered ==
    result = "ok" /\ Dense(loaded) => Dense(returned)

\* the five fields of an item, as the input has them
WellShaped(t) ==
    /\ DOMAIN t = {"id", "text", "done", "due_date", "reminder"}
    /\ t.id \in Nat \ {0}
    /\ t.done \in BOOLEAN
    /\ Len(t.due_date) <= 1
    /\ Len(t.reminder) <= 1

\* C7 amended: the list run_tui returns is the in-memory list as it stands at the quit
\* key, with the shape of the input and not renumbered: starting from id == position + 1
\* every returned id is >= its position + 1 (renumbering is left to the caller).
C7_ReturnedAsInMemory ==
    result = "ok" =>
        /\ returned = todos
        /\ \A i \in 1 .. Len(returned) : WellShaped(returned[i])
        /\ Dense(loaded) => IdsAtLeastPosition(returned)

\* C7 witness: run_tui has returned Ok after a session with a delete and an add.
C7_Witness ==
    /\ result = "ok"
    /\ nkeys = 2
    /\ Len(loaded) = 2
    /\ Dense(loaded)
    /\ Len(returned) = 2
    /\ returned[1] = loaded[2]
    /\ returned[2].text = <<"a", " ", "b">>

\* C8: a delete with the selection at index i < n removes exactly the item at i and
\* keeps the others in order, so the length is n - 1; the selection becomes i - 1, or
\* stays 0 when i = 0.
C8_Delete ==
    [][KeyDelete /\ selected < Len(todos) =>
        /\ Len(todos') = Len(todos) - 1
        /\ \A j \in 1 .. selected : todos'[j] = todos[j]
        /\ \A j \in (selected + 1) .. (Len(todos) - 1) : todos'[j] = todos[j + 1]
        /\ selected' = IF selected > 0 THEN selected - 1 ELSE 0]_vars

\* C8 witness: the middle item of a three-item list has been deleted.
C8_Witness ==
    /\ pc = "draw"
    /\ nkeys = 2
    /\ Len(loaded) = 3
    /\ todos = <<loaded[1], loaded[3]>>
    /\ selected = 0

\* C9: add, once the bridge call succeeded and the scratch file was read: if the content
\* trims to empty nothing is appended and the selection stays; otherwise one item is
\* appended with the trimmed text, done = false, no due date, no reminder and
\* id = previous length + 1, the other items are unchanged and the selection is the new
\* last index.  The add key is accepted whatever the list holds, the empty list included.
C9_Add ==
    /\ [](pc = "poll" /\ nkeys < MaxKeys /\ Len(todos) < MaxTodos => ENABLED KeyAdd)
    /\ [][ReadBack /\ handler = "a" /\ result' = "none" =>
        LET content == files[NewPath]
            n == Len(todos)
        IN  IF IsTrimOf(<<>>, content)
              THEN todos' = todos /\ selected' = selected
              ELSE /\ Len(todos') = n + 1
                   /\ \A j \in 1 .. n : todos'[j] = todos[j]
                   /\ IsTrimOf(todos'[n + 1].text, content)
                   /\ todos'[n + 1].id = n + 1
                   /\ todos'[n + 1].done = FALSE
                   /\ todos'[n + 1].due_date = None
                   /\ todos'[n + 1].reminder = None
                   /\ selected' = n]_vars

\* C9 witness: an add on the empty list has appended the trimmed text as item 1.
C9_Witness ==
    /\ pc = "draw"
    /\ loaded = <<>>
    /\ files[NewPath] = <<" ", "a", " ">>
    /\ todos = <<Todo(1, <<"a">>, FALSE, None, None)>>
    /\ selected = 0

\* C10: edit text, once the bridge call succeeded and the scratch file was read: if the
\* content trims to empty the text keeps its value, otherwise the text becomes the
\* trimmed content; nothing else changes, and a non-empty text stays non-empty.
C10_EditText ==
    [][ReadBack /\ handler = "e" /\ result' = "none" =>
        LET content == files[EditPath]
            k == At(selected)
        IN  /\ IF IsTrimOf(<<>>, content)
                 THEN todos'[k].text = todos[k].text
                 ELSE IsTrimOf(todos'[k].text, content)
            /\ todos[k].text # <<>> => todos'[k].text # <<>>
            /\ todos' = [todos EXCEPT ![k].text = todos'[k].text]
            /\ selected' = selected]_vars

\* C10 witness: an edit that left padded text in the scratch file has stored it trimmed.
C10_Witness ==
    /\ pc = "draw"
    /\ Len(todos) > 0
    /\ files[EditPath] = <<" ", "a", " ">>
    /\ todos[At(selected)].text = <<"a">>

\* C10 witness of the other case: after an edit that left only whitespace, the text is
\* the one the item had.
C10_WitnessKept ==
    /\ pc = "draw"
    /\ nkeys = 1
    /\ Len(todos) > 0
    /\ files[EditPath] = <<" ", " ">>
    /\ todos = loaded

\* the step of a key arm that has read its scratch file back after run_editor returned Ok
ReadBackOf(h) == ReadBack /\ handler = h /\ result' = "none"

\* C11: set due date and set reminder, once the bridge call succeeded and the scratch
\* file was read: a content that trims to non-empty is stored, trimmed, as the new value
\* of the field; a content that trims to empty makes the field absent; the field is
\* never present with an empty string.
C11_SetDueAndReminder ==
    /\ [][ReadBackOf("t") =>
            LET content == files[DuePath]
                k == At(selected)
            IN  /\ IF IsTrimOf(<<>>, content)
                     THEN todos'[k].due_date = None
                     ELSE /\ Len(todos'[k].due_date) = 1
                          /\ IsTrimOf(todos'[k].due_date[1], content)
                /\ todos'[k].due_date # Some(<<>>)]_vars
    /\ [][ReadBackOf("r") =>
            LET content == files[ReminderPath]
                k == At(selected)
            IN  /\ IF IsTrimOf(<<>>, content)
                     THEN todos'[k].reminder = None
                     ELSE /\ Len(todos'[k].reminder) = 1
                          /\ IsTrimOf(todos'[k].reminder[1], content)
                /\ todos'[k].reminder # Some(<<>>)]_vars

\* C11 witness: a due date left padded in the scratch file has been stored trimmed, on
\* an item that had none.
C11_Witness ==
    /\ pc = "draw"
    /\ Len(todos) > 0
    /\ files[DuePath] = <<" ", "a", " ">>
    /\ loaded[At(selected)].due_date = None
    /\ todos[At(selected)].due_date = Some(<<"a">>)

\* a session in which toggle is the only key pressed before quit
ToggleNext ==
    \/ SetupEnableRaw \/ SetupEnterAlt \/ SetupEnableMouse \/ SetupTerminal
    \/ Draw \/ PollErr \/ PollNothing \/ KeyToggle \/ KeyQuit
    \/ TeardownDisableRaw \/ TeardownLeaveAlt \/ TeardownDisableMouse \/ ReturnOk

SpecToggles == Init /\ [][ToggleNext]_vars

\* C12: after k toggles in a row (nkeys = k, no other key) the done flag of the selected
\* item is the original one when k is even and its negation when k is odd; nothing else
\* has changed.
C12_ToggleParity ==
    /\ selected = 0
    /\ IF Len(loaded) = 0
         THEN todos = <<>>
         ELSE todos = [loaded EXCEPT ![1].done = IF nkeys % 2 = 0 THEN @ ELSE ~@]

\* C12 witness: toggle was pressed twice and the item is as it was loaded.
C12_Witness ==
    /\ pc = "draw"
    /\ nkeys = 2
    /\ Len(loaded) > 0
    /\ todos = loaded

\* the keys that act on the selected item or move the selection
ItemKey ==
    \/ KeyToggle \/ KeyDelete \/ KeyEdit \/ KeyDue \/ KeyReminder \/ KeyClearReminder
    \/ KeyUp \/ KeyDown

\* C13: on the empty list the keys toggle, delete, edit, set due date, set reminder,
\* clear reminder, up and down change nothing: the list stays empty, the selection stays
\* 0, no scratch file is written and run_editor is not entered.
C13_EmptyListNoOps ==
    /\ [](Len(todos) = 0 => selected = 0)
    /\ [][Len(todos) = 0 /\ ItemKey =>
            /\ todos' = <<>>
            /\ selected' = 0
            /\ files' = files
            /\ handler' = "none"
            /\ pc' = "draw"
            /\ result' = "none"]_vars

\* C13 witness: the only item was deleted and a second key was pressed on the empty list.
C13_Witness ==
    /\ pc = "draw"
    /\ nkeys = 2
    /\ Len(loaded) = 1
    /\ todos = <<>>
    /\ selected = 0

\* the positions of run_tui after the loop
AfterQuit == {"td_disable_raw", "td_leave_alt", "td_disable_mouse", "td_show_cursor", "done"}

\* C14: after the quit key nothing changes the list any more, and the Ok value is the
\* in-memory list at that point, in order.
C14_QuitReturnsItems ==
    /\ [][KeyQuit => pc' = "td_disable_raw" /\ todos' = todos]_vars
    /\ [][(pc \in AfterQuit) => (todos' = todos /\ nkeys' = nkeys)]_vars
    /\ [](result = "ok" => returned = todos)

\* C14 witness: from one undone item with id 1, toggle, down, quit has returned that item
\* done.
C14_Witness ==
    /\ result = "ok"
    /\ nkeys = 2
    /\ loaded = <<InitTodo(1)>>
    /\ returned = <<[InitTodo(1) EXCEPT !.done = TRUE]>>

\* C15: terminal modes are acquired as raw mode, alternate screen, mouse capture and
\* released in the reverse order, in the final teardown and in run_editor's suspend, and
\* run_editor's resume reverses its suspend; so mouse capture is only ever on inside the
\* alternate screen and the alternate screen only inside raw mode.
C15_ReverseOrder ==
    /\ mouse => alt
    /\ alt => raw

\* the positions of run_editor after the launch of the editor was attempted
AfterLaunch == {"ed_enter_alt", "ed_enable_mouse", "ed_enable_raw", "ed_redraw"}

\* C16: once the launch of the editor was attempted, run_editor returns to the key arm
\* only with the alternate screen entered and raw mode enabled, and run_tui goes on.
C16_ResumedBeforeReturn ==
    [][(pc \in AfterLaunch) /\ pc' \in {"draw", "read_back"} =>
        raw' /\ alt' /\ result' = "none"]_vars

\* C17 as stated: when the launch of the editor failed, run_editor returns Ok and the
\* key arm goes on to read the scratch file back.
C17_LaunchFailureReadsBack ==
    [][status = "err" /\ pc = "ed_redraw" => pc' = "read_back"]_vars

\* C17 amended: when the launch of the editor failed, run_editor restores the screen and
\* returns the launch error: the key arm never reads the scratch file back, the list
\* and the selection stay as they were, and run_tui goes on with the loop.
C17_LaunchFailureSkipsReadBack ==
    /\ [](pc = "read_back" => status \in {"ok_zero", "ok_nonzero"})
    /\ [][status = "err" =>
            /\ pc' \in AfterLaunch \cup {"draw"}
            /\ todos' = todos
            /\ selected' = selected
            /\ result' = "none"]_vars

\* C17 witness: the launch failed and the screen has been restored; run_editor is about
\* to return the error.
C17_Witness ==
    /\ pc = "ed_redraw"
    /\ status = "err"
    /\ raw /\ alt /\ mouse

\* the value of the field an arm edits, as the scratch file should hold it
FieldValue(h, ts, sel) ==
    IF h = "a" THEN <<>>
    ELSE IF h = "e" THEN ts[sel + 1].text
    ELSE IF h = "t" THEN (IF ts[sel + 1].due_date = <<>> THEN <<>> ELSE ts[sel + 1].due_date[1])
    ELSE (IF ts[sel + 1].reminder = <<>> THEN <<>> ELSE ts[sel + 1].reminder[1])

\* C18: while the editor child runs the terminal is in normal mode, one key arm is in
\* its edit, its scratch file holds the value that was written before the screen was
\* suspended, and the only step is the child's exit: no render, no key dispatch, no
\* change of the list.
C18_ModalHandoff ==
    /\ [](pc = "ed_wait" =>
            /\ ~raw /\ ~alt /\ ~mouse
            /\ handler \in {"e", "t", "r", "a"}
            /\ status = "running"
            /\ files[TmpPath(handler)] = FieldValue(handler, todos, selected))
    /\ [](status = "running" => pc = "ed_wait")
    /\ [][pc = "ed_wait" =>
            /\ pc' = "ed_enter_alt"
            /\ todos' = todos /\ selected' = selected /\ nkeys' = nkeys
            /\ handler' = handler]_vars

\* C18 witness: the editor runs on the reminder of the selected item.
C18_Witness ==
    /\ pc = "ed_wait"
    /\ handler = "r"
    /\ files[ReminderPath] = <<"r">>
    /\ ~raw /\ ~alt

\* ts2 is ts except, at most, for field f of the item at sel
OnlyField(ts, ts2, sel, f) ==
    /\ Len(ts2) = Len(ts)
    /\ \A i \in 1 .. Len(ts) : i # sel + 1 => ts2[i] = ts[i]
    /\ \A g \in {"id", "text", "done", "due_date", "reminder"} \ {f} :
          ts2[sel + 1][g] = ts[sel + 1][g]

\* C19: up, down and unbound keys leave the list unchanged, unbound keys the selection
\* too, and up and down move the selection by at most one without wrapping; toggle, edit
\* text, set due date, set reminder and clear reminder change at most their one field of
\* the selected item, and not the selection.
C19_Frames ==
    /\ [][KeyUp \/ KeyDown \/ KeyOther => todos' = todos]_vars
    /\ [][KeyOther => selected' = selected]_vars
    /\ [][KeyUp => selected' \in {selected, selected - 1} /\ selected' <= selected]_vars
    /\ [][KeyDown =>
            /\ selected' \in {selected, selected + 1}
            /\ Len(todos) > 0 => selected' < Len(todos)]_vars
    /\ [][KeyToggle /\ HasItem(todos, selected) =>
            OnlyField(todos, todos', selected, "done") /\ selected' = selected]_vars
    /\ [][KeyClearReminder /\ HasItem(todos, selected) =>
            OnlyField(todos, todos', selected, "reminder") /\ selected' = selected]_vars
    /\ [][ReadBackOf("e") =>
            OnlyField(todos, todos', selected, "text") /\ selected' = selected]_vars
    /\ [][ReadBackOf("t") =>
            OnlyField(todos, todos', selected, "due_date") /\ selected' = selected]_vars
    /\ [][ReadBackOf("r") =>
            OnlyField(todos, todos', selected, "reminder") /\ selected' = selected]_vars
    /\ [][KeyEdit \/ KeyDue \/ KeyReminder => todos' = todos /\ selected' = selected]_vars

\* C19 witness: the reminder of the second item of a longer list was cleared; the rest
\* of the list is as loaded.
C19_Witness ==
    /\ pc = "draw"
    /\ nkeys = 2
    /\ Len(loaded) >= 2
    /\ selected = 1
    /\ todos = [loaded EXCEPT ![2].reminder = None]

SameItems(a, b) ==
    /\ Len(a) = Len(b)
    /\ \A i \in 1 .. Len(a) :
          /\ a[i].text = b[i].text
          /\ a[i].done = b[i].done
          /\ a[i].due_date = b[i].due_date
          /\ a[i].reminder = b[i].reminder

\* C21: after a session that ended with the quit key (run_tui returned Ok), the list the
\* caller has persisted, in the JSON file or in the SQLite table, holds the returned
\* items in their order with id == position + 1 for every item, hence pairwise
\* distinct ids, whatever ids were loaded and whatever was deleted or added; and no
\* write of the store after such a session leaves it with other ids.
C21_PersistedIdsDense ==
    /\ []((result = "ok" /\ cpc \in {"main_save", "exit"}) =>
            (Dense(store) /\ Distinct(store) /\ SameItems(store, returned)))
    /\ [][(result = "ok" /\ store' # store) => Dense(store')]_vars

\* C21 witness: the session deleted and added, so that two returned items share an id,
\* and the SQLite caller has committed them renumbered.
C21_Witness ==
    /\ sqlite
    /\ cpc = "exit"
    /\ result = "ok"
    /\ Len(returned) >= 2
    /\ ~Distinct(returned)
    /\ Len(store) = Len(returned)

\* C21 witness on the flat-file path: a loaded list with a gap in its ids lost an item
\* in the session and both saves have completed.
C21_WitnessJson ==
    /\ ~sqlite
    /\ cpc = "exit"
    /\ result = "ok"
    /\ ~Dense(loaded)
    /\ Len(returned) = Len(loaded) - 1
    /\ ~Dense(returned)
    /\ store # <<>>

\* C22: once run_tui has returned an error and the caller is through with the command,
\* the store holds exactly the list that was loaded before the session.
C22_ErrorKeepsStore ==
    (result = "err" /\ cpc \in {"exit", "panic"}) => store = loaded

\* the same for commands that ran to their end: it is the save of main that can lose
\* the list, not the Err arm
ErrorKeepsStoreAtExit ==
    (result = "err" /\ cpc = "exit") => (store = loaded /\ main_todos = loaded)

\* some item of ts has the id
HasId(ts, id) == \E i \in 1 .. Len(ts) : ts[i].id = id

\* C23: on the flat-file command path, starting from a list with id == position + 1,
\* every sequence of commands keeps id == position + 1 for every item, in memory and in
\* the store: add appends one item with id len + 1 and leaves the others alone, delete
\* removes the item with the id and numbers the rest by position, keeping their order
\* and their other fields; and a delete, done, due, remind or clear-reminder command
\* that names an id no item has leaves the list as it was.
C23_CliIdsDense ==
    /\ [](Dense(main_todos) /\ Dense(store))
    /\ [][\A text \in AddArgs : CliAdd(text) =>
            /\ Len(main_todos') = Len(main_todos) + 1
            /\ SubSeq(main_todos', 1, Len(main_todos)) = main_todos
            /\ main_todos'[Len(main_todos')].id = Len(main_todos) + 1]_vars
    /\ [][\A id \in CliIds : (CliDelete(id) /\ HasId(main_todos, id)) =>
            /\ Len(main_todos') = Len(main_todos) - 1
            /\ \A i \in 1 .. Len(main_todos') :
                  /\ main_todos'[i].id = i
                  /\ SameItems(<<main_todos'[i]>>,
                               <<main_todos[IF i < id THEN i ELSE i + 1]>>)]_vars
    /\ [][\A id \in CliIds :
            (/\ ~HasId(main_todos, id)
             /\ \/ CliDelete(id)
                \/ CliDone(id)
                \/ CliClearReminder(id)
                \/ \E date \in DateArgs : CliDue(id, date)
                \/ \E date \in DateArgs, time \in TimeArgs : CliRemind(id, date, time))
            => main_todos' = main_todos]_vars

\* C23 witness: after a done command on the first of three items was saved, a delete
\* command has removed that item and the former second item, not done, now has id 1.
C23_Witness ==
    /\ cpc = "main_save"
    /\ Len(store) = 3
    /\ store[1].done
    /\ ~store[2].done
    /\ Len(main_todos) = 2
    /\ ~main_todos[1].done
    /\ main_todos[1].id = 1
    /\ main_todos[2].id = 2

====
